---------------------------- MODULE Spec2Model ----------------------------
(***************************************************************************)
(* Tileit roofing quote generator.                                         *)
(*                                                                         *)
(* The quote engine (calculate_quote, get_region_multiplier) is modelled   *)
(* from the reference formula in src/docs/roofing_quote_context.md.  The   *)
(* batch driver (run_batch) and the profile loader are part of the Python  *)
(* backend, which is not among the source files; they are modelled from    *)
(* sections 4.4 and 7 of the specification.                                *)
(*                                                                         *)
(* Numbers are exact rationals [n, d] in lowest terms with d > 0.  The     *)
(* binary floating point error of the Python floats is not modelled.       *)
(* Strings whose characters the code inspects (material names, ZIP codes,  *)
(* repair field names) are sequences of one-character strings.             *)
(***************************************************************************)
EXTENDS Integers, Sequences, FiniteSets, TLC

VARIABLES
    roofer,      \* the pricing profile handed to the engine
    row,         \* the property record of the current calculation
    quote,       \* what calculate_quote returned for (row, roofer), or NoQuote
    zip_code,    \* argument of the region resolver
    high_list,   \* the resolver's high-cost prefix list
    low_list,    \* the resolver's low-cost prefix list
    multiplier,  \* what the resolver returned, or NoMult
    batch,       \* run_batch: the raw records
    pc,          \* run_batch: "idle", "run", "par", "done", "config_error", "crashed"
    idx,         \* run_batch: index of the next record (0-based)
    results,     \* run_batch: QuoteResults so far
    errors,      \* run_batch: (record_index, reason) entries so far
    worker,      \* parallel run_batch: each worker's state and outcome, and the order of ending
    page,        \* the landing page: displays, overflow, form fields, timers, alert
    lastEvent,   \* the landing page: the handler that ran last
    wizard,      \* the onboarding wizard: step and formData
    wizEvent     \* the onboarding wizard: the last event and what it passed on

vars == <<roofer, row, quote, zip_code, high_list, low_list, multiplier,
          batch, pc, idx, results, errors, worker, page, lastEvent,
          wizard, wizEvent>>

calcVars   == <<roofer, row, quote>>
regionVars == <<zip_code, high_list, low_list, multiplier>>
batchVars  == <<batch, pc, idx, results, errors, worker>>
pageVars   == <<page, lastEvent>>
wizardVars == <<wizard, wizEvent>>

(***************************************************************************)
(* Exact rational arithmetic (Python float arithmetic without its error).  *)
(***************************************************************************)
Abs(i) == IF i < 0 THEN -i ELSE i

RECURSIVE GCD(_, _)
GCD(a, b) == IF b = 0 THEN a ELSE GCD(b, a % b)

\* n/d in lowest terms, d > 0.
Q(n, d) ==
    LET s == IF d < 0 THEN -1 ELSE 1
        g == GCD(Abs(n), Abs(d))
    IN  [n |-> (s * n) \div g, d |-> (s * d) \div g]

QI(i) == [n |-> i, d |-> 1]

QAdd(a, b) ==
    LET g == GCD(a.d, b.d)
    IN  Q(a.n * (b.d \div g) + b.n * (a.d \div g), (a.d \div g) * b.d)

QMul(a, b) ==
    LET g1 == GCD(Abs(a.n), b.d)
        g2 == GCD(Abs(b.n), a.d)
        h1 == IF g1 = 0 THEN 1 ELSE g1
        h2 == IF g2 = 0 THEN 1 ELSE g2
    IN  Q((a.n \div h1) * (b.n \div h2), (a.d \div h2) * (b.d \div h1))

\* a / b for b # 0.
QDiv(a, b) == QMul(a, Q(b.d, b.n))

\* a < b, comparing the integer parts first (\div rounds down).
QLt(a, b) ==
    LET ia == a.n \div a.d
        ib == b.n \div b.d
    IN  IF ia # ib THEN ia < ib
        ELSE (a.n % a.d) * b.d < (b.n % b.d) * a.d
QLe(a, b) == a = b \/ QLt(a, b)
QGt(a, b) == QLt(b, a)

\* Python round(x, 2): the nearest multiple of 0.01, ties to the even one.
\* The result is the rational number of the rounded float.
round2(x) ==
    LET s  == IF x.n < 0 THEN -1 ELSE 1
        a  == Abs(x.n)
        r0 == a % x.d
        d1 == (r0 * 10) \div x.d
        r1 == (r0 * 10) % x.d
        d2 == (r1 * 10) \div x.d
        r  == (r1 * 10) % x.d
        fl == (a \div x.d) * 100 + d1 * 10 + d2
        c  == IF r > x.d - r THEN fl + 1
              ELSE IF r < x.d - r THEN fl
              ELSE IF fl % 2 = 0 THEN fl ELSE fl + 1
    IN  Q(s * c, 100)

(***************************************************************************)
(* Strings as character sequences.                                         *)
(***************************************************************************)
UpperChars == <<"A","B","C","D","E","F","G","H","I","J","K","L","M",
                "N","O","P","Q","R","S","T","U","V","W","X","Y","Z">>
LowerChars == <<"a","b","c","d","e","f","g","h","i","j","k","l","m",
                "n","o","p","q","r","s","t","u","v","w","x","y","z">>

LowerChar(c) ==
    IF \E i \in 1..26 : UpperChars[i] = c
    THEN LowerChars[CHOOSE i \in 1..26 : UpperChars[i] = c]
    ELSE c

\* The string as written, its letter case kept.
keep_case(s) == s

\* str.lower()
lower(s) == [i \in 1..Len(s) |-> LowerChar(s[i])]

\* p occurs somewhere in s (s.find(p) >= 0, p in s).
contains(s, p) ==
    \E k \in 0..(Len(s) - Len(p)) : SubSeq(s, k + 1, k + Len(p)) = p

\* str.startswith(prefix)
startswith(s, p) == Len(p) <= Len(s) /\ SubSeq(s, 1, Len(p)) = p

\* str.startswith(tuple): some entry of the tuple is a prefix.
startswith_any(s, ps) == \E i \in 1..Len(ps) : startswith(s, ps[i])

\* str.split()[0] of a string with at least one non-blank character.
RECURSIVE FirstToken(_)
FirstToken(s) ==
    IF s = <<>> THEN <<>>
    ELSE IF Head(s) = " " THEN <<>>
    ELSE <<Head(s)>> \o FirstToken(Tail(s))

RECURSIVE StripLeft(_)
StripLeft(s) ==
    IF s # <<>> /\ Head(s) = " " THEN StripLeft(Tail(s)) ELSE s

split_first(s) == FirstToken(StripLeft(s))

Digits == <<"0","1","2","3","4","5","6","7","8","9">>

\* str(i) of a non-negative int.
RECURSIVE IntToStr(_)
IntToStr(i) ==
    IF i < 10 THEN <<Digits[i + 1]>>
    ELSE IntToStr(i \div 10) \o <<Digits[(i % 10) + 1]>>


(***************************************************************************)
(* Python values of a CSV row: a number, a string or None.  Every value    *)
(* has the same shape so that any two can be compared.                     *)
(***************************************************************************)
Num(q)  == [k |-> "num",  n |-> q.n, d |-> q.d, s |-> <<>>]
Str(s)  == [k |-> "str",  n |-> 0,   d |-> 1,   s |-> s]
PyNone  == [k |-> "none", n |-> 0,   d |-> 1,   s |-> <<>>]
NumOf(v) == [n |-> v.n, d |-> v.d]
IsNum(v) == v.k = "num"

\* dict.get(key, default): a row is a function whose domain is its keys.
dict_get(m, key, default) == IF key \in DOMAIN m THEN m[key] ELSE default

(***************************************************************************)
(* get_region_multiplier.  The two prefix lists are literals of the        *)
(* function; resolve takes them as arguments so that the order of the two  *)
(* tests can be examined on lists that overlap.                            *)
(***************************************************************************)
high_cost_zips == << <<"1","0","0">>, <<"9","0">>, <<"9","4">>, <<"1","1">> >>
low_cost_zips  == << <<"8","3">>, <<"5","9">>, <<"3","5">>, <<"7","3">> >>

HighMultiplier    == Q(125, 100)
LowMultiplier     == Q(85, 100)
NeutralMultiplier == QI(1)

\* str(zip_code): a str is itself, an int its decimal digits, None "None".
str(v) ==
    IF v.k = "str" THEN v.s
    ELSE IF v.k = "num" THEN IntToStr(v.n)
    ELSE <<"N","o","n","e">>

resolve_low_first(zip, high, low) ==
    IF startswith_any(str(zip), low) THEN LowMultiplier
    ELSE IF startswith_any(str(zip), high) THEN HighMultiplier
    ELSE NeutralMultiplier

resolve(zip, high, low) ==
    IF startswith_any(str(zip), high) THEN HighMultiplier
    ELSE IF startswith_any(str(zip), low) THEN LowMultiplier
    ELSE NeutralMultiplier

get_region_multiplier(zip) == resolve(zip, high_cost_zips, low_cost_zips)

(***************************************************************************)
(* calculate_quote.                                                        *)
(***************************************************************************)
Zero == QI(0)

DefaultArea      == Num(QI(2500))
DefaultPitch     == Num(QI(15))
DefaultHeight    == Num(QI(15))
DefaultMaterial  == Str(<<"a","s","p","h","a","l","t">>)
DefaultCondition == Num(QI(80))
DefaultUnitPrice == Q(50, 10)
DefaultRepairRate == QI(50)
LowFactor  == Q(9, 10)
HighFactor == Q(115, 100)

\* Section 1 of calculate_quote: the row.get calls with their defaults.
normalize(r) ==
    [ area      |-> dict_get(r, "roof_area", DefaultArea),
      pitch     |-> dict_get(r, "pitch", DefaultPitch),
      height    |-> dict_get(r, "height_ft", DefaultHeight),
      material  |-> dict_get(r, "roof_material", DefaultMaterial),
      condition |-> dict_get(r, "roof_condition_summary_score", DefaultCondition) ]

\* Section 3: dynamic crew size (area, pitch, height are rationals).
crew_size_nonstrict(base, area, pitch, height) ==
    base + (IF QLe(QI(3000), area) THEN 1 ELSE 0)
         + (IF QLe(QI(5000), area) THEN 1 ELSE 0)
         + (IF QLe(QI(30), pitch) \/ QLe(QI(25), height) THEN 1 ELSE 0)

crew_size(base, area, pitch, height) ==
    base + (IF QGt(area, QI(3000)) THEN 1 ELSE 0)
         + (IF QGt(area, QI(5000)) THEN 1 ELSE 0)
         + (IF QGt(pitch, QI(30)) \/ QGt(height, QI(25)) THEN 1 ELSE 0)

\* A crew that grows with pitch and height only under size_and_complexity.
crew_for_by_rule(rf, area, pitch, height) ==
    IF rf.crew_scaling_rule = "size_only"
    THEN crew_size(rf.base_crew_size, area, Zero, Zero)
    ELSE crew_size(rf.base_crew_size, area, pitch, height)

\* A crew left at its base size when there is nothing to roof.
crew_for_no_area(rf, area, pitch, height) ==
    IF area = Zero THEN rf.base_crew_size
    ELSE crew_size(rf.base_crew_size, area, pitch, height)

\* crew_size = roofer["base_crew_size"], then the three increments:
\* roofer["crew_scaling_rule"] is not read.
crew_for(rf, area, pitch, height) ==
    crew_size(rf.base_crew_size, area, pitch, height)

\* Section 4: hours = (area / daily_productivity) * 8.
labor_hours_per_day(area, productivity) == QDiv(area, productivity)

\* Hours of a 4-hour working day.
labor_hours_half_day(area, productivity) ==
    QMul(QDiv(area, productivity), QI(4))

labor_hours(area, productivity) == QMul(QDiv(area, productivity), QI(8))

\* Section 5: the key of slope_cost_adjustment chosen for a pitch.
slope_bucket_exclusive(pitch) ==
    IF QLt(pitch, QI(15)) THEN "flat_low"
    ELSE IF QLt(pitch, QI(30)) THEN "moderate"
    ELSE IF QLt(pitch, QI(45)) THEN "steep"
    ELSE "very_steep"

slope_bucket(pitch) ==
    IF QLe(pitch, QI(15)) THEN "flat_low"
    ELSE IF QLe(pitch, QI(30)) THEN "moderate"
    ELSE IF QLe(pitch, QI(45)) THEN "steep"
    ELSE "very_steep"

\* Section 6: the three repair fields, each with its characters.
RepairFields ==
    << [key |-> "shingle repair area (sqm)",
        chars |-> <<"s","h","i","n","g","l","e"," ","r","e","p","a","i","r",
                    " ","a","r","e","a"," ","(","s","q","m",")">>],
       [key |-> "tile repair area (sqm)",
        chars |-> <<"t","i","l","e"," ","r","e","p","a","i","r",
                    " ","a","r","e","a"," ","(","s","q","m",")">>],
       [key |-> "metal repair area (sqm)",
        chars |-> <<"m","e","t","a","l"," ","r","e","p","a","i","r",
                    " ","a","r","e","a"," ","(","s","q","m",")">>] >>

\* A repair loop that adds every present area, whatever its sign.
repair_item_signed(r, rf, i) ==
    LET f == RepairFields[i]
    IN  IF f.key \in DOMAIN r /\ IsNum(r[f.key])
        THEN QMul(NumOf(r[f.key]),
                  dict_get(rf.replacement_costs, split_first(f.chars),
                           DefaultRepairRate))
        ELSE Zero

\* One turn of the repair loop: what field i adds to repair_cost.
repair_item(r, rf, i) ==
    LET f == RepairFields[i]
    IN  IF f.key \in DOMAIN r /\ IsNum(r[f.key]) /\ QGt(NumOf(r[f.key]), Zero)
        THEN QMul(NumOf(r[f.key]),
                  dict_get(rf.replacement_costs, split_first(f.chars),
                           DefaultRepairRate))
        ELSE Zero

\* A repair field whose value cannot be compared with 0 (row[f] > 0).
repair_type_error(r) ==
    \E i \in 1..Len(RepairFields) :
        RepairFields[i].key \in DOMAIN r /\ ~IsNum(r[RepairFields[i].key])

repair_total(r, rf) ==
    QAdd(repair_item(r, rf, 1),
         QAdd(repair_item(r, rf, 2), repair_item(r, rf, 3)))

\* Section 8: subtotal, overhead, profit and total.
combine_totals_flat_profit(material_cost, labor_cost, repair_cost, mult, rf) ==
    LET subtotal == QMul(QAdd(QAdd(material_cost, labor_cost), repair_cost), mult)
        overhead == QMul(subtotal, rf.overhead_percent)
        profit   == QMul(subtotal, rf.profit_margin)
    IN  [subtotal |-> subtotal, overhead |-> overhead, profit |-> profit,
         total |-> QAdd(QAdd(subtotal, overhead), profit)]

combine_totals(material_cost, labor_cost, repair_cost, mult, rf) ==
    LET subtotal == QMul(QAdd(QAdd(material_cost, labor_cost), repair_cost), mult)
        overhead == QMul(subtotal, rf.overhead_percent)
        profit   == QMul(QAdd(subtotal, overhead), rf.profit_margin)
    IN  [subtotal |-> subtotal, overhead |-> overhead, profit |-> profit,
         total |-> QAdd(QAdd(subtotal, overhead), profit)]

\* Section 9: the returned range.
quote_range_symmetric(total) ==
    [low |-> round2(QMul(total, LowFactor)),
     high |-> round2(QMul(total, Q(110, 100)))]

quote_range(total) ==
    [low |-> round2(QMul(total, LowFactor)),
     high |-> round2(QMul(total, HighFactor))]

\* The first exception calculate_quote raises on (r, rf), "" when none.
calc_exception(r, rf) ==
    LET f == normalize(r)
    IN  IF f.material.k # "str" THEN "AttributeError"
        ELSE IF ~IsNum(f.area) THEN "TypeError"
        ELSE IF ~IsNum(f.pitch) THEN "TypeError"
        ELSE IF ~QGt(NumOf(f.pitch), QI(30)) /\ ~IsNum(f.height) THEN "TypeError"
        ELSE IF rf.daily_productivity = Zero THEN "ZeroDivisionError"
        ELSE IF repair_type_error(r) THEN "TypeError"
        ELSE ""

NoValues ==
    [ roof_material |-> <<>>, pitch |-> Zero, roof_area |-> Zero,
      crew_size_used |-> 0, region_multiplier |-> Zero,
      material_cost |-> Zero, labor_cost |-> Zero, repair_cost |-> Zero,
      subtotal |-> Zero, total |-> Zero, low |-> Zero, high |-> Zero ]

\* The ZIP a property's own columns would give the region, were they read.
region_of_property(r, rf) == dict_get(r, "zip_code", rf.region_zip)

\* region = roofer["region_zip"]: the record is not consulted.
region_of(r, rf) == rf.region_zip

\* A productivity doubled for a roof in good condition (score >= 90).
productivity_by_condition(rf, condition) ==
    IF IsNum(condition) /\ QLe(QI(90), NumOf(condition))
    THEN QMul(rf.daily_productivity, QI(2)) ELSE rf.daily_productivity

\* roofer["daily_productivity"]: the condition score, read on line 95, is
\* used by no later line.
productivity_of(rf, condition) == rf.daily_productivity

\* The values calculate_quote computes when it raises nothing.
calc_values(r, rf) ==
    LET f        == normalize(r)
        area     == NumOf(f.area)
        pitch    == NumOf(f.pitch)
        height   == IF IsNum(f.height) THEN NumOf(f.height) ELSE Zero
        material == lower(f.material.s)
        region   == region_of(r, rf)
        material_cost ==
            QMul(area, dict_get(rf.material_costs, material, DefaultUnitPrice))
        crew     == crew_for(rf, area, pitch, height)
        hours    == labor_hours(area, productivity_of(rf, f.condition))
        labor0   == QMul(QMul(hours, rf.labor_rate), QI(crew))
        slope_factor == rf.slope_cost_adjustment[slope_bucket(pitch)]
        labor_cost   == QMul(labor0, QAdd(QI(1), slope_factor))
        repair_cost  == repair_total(r, rf)
        regional_multiplier == get_region_multiplier(region)
        sums     == combine_totals(material_cost, labor_cost, repair_cost,
                                   regional_multiplier, rf)
        subtotal == sums.subtotal
        total    == sums.total
        range    == quote_range(total)
    IN  [ roof_material |-> material, pitch |-> pitch, roof_area |-> area,
          crew_size_used |-> crew, region_multiplier |-> regional_multiplier,
          material_cost |-> material_cost, labor_cost |-> labor_cost,
          repair_cost |-> repair_cost, subtotal |-> subtotal,
          total |-> total, low |-> range.low, high |-> range.high ]

\* calculate_quote(row, roofer): [exc, v], v the computed values.
calculate_quote(r, rf) ==
    LET e == calc_exception(r, rf)
    IN  [exc |-> e, v |-> IF e = "" THEN calc_values(r, rf) ELSE NoValues]

(***************************************************************************)
(* Profiles.  DefaultProfile holds the values the onboarding wizard starts *)
(* with (RooferOnboarding's formData) and a registered ZIP.                *)
(***************************************************************************)
asphalt  == <<"a","s","p","h","a","l","t">>
shingle  == <<"s","h","i","n","g","l","e">>
metal    == <<"m","e","t","a","l">>
tile     == <<"t","i","l","e">>
concrete == <<"c","o","n","c","r","e","t","e">>
slate    == <<"s","l","a","t","e">>

ZipStr(i) == Str(IntToStr(i))

DefaultProfile ==
    [ region_zip         |-> ZipStr(10001),
      labor_rate         |-> QI(45),
      daily_productivity |-> QI(2500),
      base_crew_size     |-> 3,
      crew_scaling_rule  |-> "size_and_complexity",
      slope_cost_adjustment |->
          [b \in {"flat_low", "moderate", "steep", "very_steep"} |->
              CASE b = "flat_low" -> Zero
                [] b = "moderate" -> Q(1, 10)
                [] b = "steep" -> Q(2, 10)
                [] b = "very_steep" -> Q(3, 10)],
      material_costs |->
          [m \in {asphalt, shingle, metal, tile, concrete} |->
              CASE m = asphalt -> QI(4)
                [] m = shingle -> Q(45, 10)
                [] m = metal -> QI(7)
                [] m = tile -> QI(8)
                [] m = concrete -> QI(6)],
      replacement_costs |->
          [m \in {asphalt, shingle, metal, tile, concrete} |->
              CASE m = asphalt -> QI(45)
                [] m = shingle -> QI(50)
                [] m = metal -> QI(90)
                [] m = tile -> QI(70)
                [] m = concrete -> QI(60)],
      overhead_percent |-> Q(1, 10),
      profit_margin    |-> Q(2, 10) ]

\* Registered ZIPs: high-cost, low-cost, neutral, and the wizard's initial ''.
ProfileZips == {ZipStr(10001), ZipStr(83001), ZipStr(60601), Str(<<>>)}

\* A profile that prices asphalt and shingle only, replacement included.
SparseProfile ==
    [DefaultProfile EXCEPT
        !.material_costs = [m \in {asphalt, shingle} |-> @[m]],
        !.replacement_costs = [m \in {asphalt, shingle} |-> @[m]]]

\* The valid profiles the engine is run with.
Profiles ==
    { [DefaultProfile EXCEPT !.region_zip = z, !.base_crew_size = b,
                             !.crew_scaling_rule = c] :
        z \in ProfileZips, b \in {1, 3},
        c \in {"size_only", "size_and_complexity"} }
      \cup {SparseProfile}

(***************************************************************************)
(* Property records.                                                       *)
(***************************************************************************)
Absent == [k |-> "absent", n |-> 0, d |-> 1, s |-> <<>>]

\* The dict with the given entries, a field given as Absent left out.
MkRow(fields) ==
    [key \in {x \in DOMAIN fields : fields[x] # Absent} |-> fields[key]]

Address(i) == Str(<<Digits[i + 1], " ", "E", "l", "m">>)

BaseFields ==
    [ address |-> Address(1), roof_area |-> Num(QI(2500)),
      pitch |-> Num(Q(2443, 100)), height_ft |-> Num(QI(15)),
      roof_material |-> Str(concrete),
      roof_condition_summary_score |-> Num(QI(80)) ]

Areas == {Absent, Num(Zero), Num(QI(1250)), Num(QI(2500)), Num(QI(3000)),
          Num(QI(3125)), Num(QI(5000)), Num(QI(5625))}
Pitches == {Absent, Num(QI(15)), Num(Q(1501, 100)), Num(Q(2443, 100)),
            Num(QI(30)), Num(Q(3001, 100)), Num(QI(45)), Num(Q(4501, 100))}
Heights == {Num(QI(15)), Num(QI(25)), Num(QI(26))}
Materials == {Absent, Str(concrete), Str(<<"T","i","l","e">>), Str(tile),
              Str(<<"M","E","T","A","L">>), Str(slate)}

\* Repair area entries added to a record.
RepairSets ==
    { <<>>,
      [x \in {"shingle repair area (sqm)", "asphalt repair area (sqm)"} |->
          IF x = "shingle repair area (sqm)" THEN Num(QI(10)) ELSE Num(QI(5))],
      [x \in {"tile repair area (sqm)", "metal repair area (sqm)"} |->
          IF x = "tile repair area (sqm)" THEN Num(Zero) ELSE Num(QI(-3))],
      [x \in {"tile repair area (sqm)", "metal repair area (sqm)",
               "concrete repair area (sqm)"} |->
          CASE x = "tile repair area (sqm)" -> Num(QI(2))
            [] x = "metal repair area (sqm)" -> Num(QI(4))
            [] x = "concrete repair area (sqm)" -> Num(QI(7))] }

\* Repair areas so small that the whole quote is below five cents.
TinyRepairSets ==
    { [x \in {"shingle repair area (sqm)"} |-> Num(Q(1, 10000))],
      [x \in {"metal repair area (sqm)"} |-> Num(Q(1, 30000))],
      [x \in {"tile repair area (sqm)"} |-> Num(Q(1, 2500))] }

\* Dict union, the entries of b winning.
Merge(a, b) ==
    [x \in DOMAIN a \cup DOMAIN b |-> IF x \in DOMAIN b THEN b[x] ELSE a[x]]

GeometryRows ==
    { MkRow([BaseFields EXCEPT !.roof_area = a, !.pitch = p, !.height_ft = h]) :
        a \in Areas, p \in Pitches, h \in Heights }

MaterialRows ==
    { Merge(MkRow([BaseFields EXCEPT !.roof_area = a, !.roof_material = m]), rep) :
        a \in {Num(Zero), Num(QI(2500))},
        m \in Materials, rep \in RepairSets }

\* Nothing to roof, a trace of repair.
TinyRows ==
    { Merge(MkRow([BaseFields EXCEPT !.roof_area = Num(Zero), !.pitch = p]), rep) :
        p \in Pitches, rep \in TinyRepairSets }

\* Where a property stands: its own ZIP column and its address.
Locations ==
    { [x \in {"zip_code", "address"} |->
          IF x = "zip_code" THEN z ELSE a] :
        z \in {ZipStr(90210), ZipStr(59001), ZipStr(60601)},
        a \in {Address(1), Address(2)} }

LocationRows ==
    { Merge(MkRow([BaseFields EXCEPT !.roof_area = a]), loc) :
        a \in {Num(QI(2500)), Num(QI(3125))}, loc \in Locations }

\* The five primary fields, by column name.
PrimaryKeys == {"roof_area", "pitch", "height_ft", "roof_material",
                "roof_condition_summary_score"}

\* Records in which one primary column is present and holds a null.
NullRows ==
    { [MkRow([BaseFields EXCEPT !.pitch = p]) EXCEPT ![key] = PyNone] :
        key \in PrimaryKeys, p \in {Num(Q(2443, 100)), Num(QI(45))} }

Rows == GeometryRows \cup MaterialRows \cup TinyRows \cup LocationRows
          \cup NullRows

(***************************************************************************)
(* The landing page (script.js).  page holds what the script reads and     *)
(* writes: the display of the Buy Now modal and of the area popup, the     *)
(* body's overflow, the three form fields, the popup timers that are       *)
(* pending, and the message of the alert the last handler raised.          *)
(***************************************************************************)
EmailAlert == "Please enter a valid email address"
ZipAlert   == "Please enter a valid 5-digit ZIP code"

\* \s and \d of the two patterns.
Whitespace == {" ", "\t", "\n"}
DigitChars == {Digits[i] : i \in 1..10}

\* [^\s@]+ on the characters a..b of s.
PlainRun(s, a, b) ==
    /\ a <= b
    /\ \A k \in a..b : s[k] \notin Whitespace /\ s[k] # "@"

\* /^[^\s@]+@[^\s@]+\.[^\s@]+$/.test(s)
emailRegex_test(s) ==
    \E i \in 1..Len(s) : \E j \in 1..Len(s) :
        /\ s[i] = "@" /\ s[j] = "."
        /\ PlainRun(s, 1, i - 1)
        /\ PlainRun(s, i + 1, j - 1)
        /\ PlainRun(s, j + 1, Len(s))

\* /^\d{5}$/.test(s)
zipRegex_test(s) == Len(s) = 5 /\ \A k \in 1..5 : s[k] \in DigitChars

\* The page as loaded: nothing shown, an empty form, no timer.
InitialPage ==
    [ modal |-> "none", popup |-> "none", overflow |-> "",
      email |-> <<>>, zipcode |-> <<>>, marketing |-> FALSE,
      timers |-> 0, alert |-> "" ]

openBuyNowForm(p) == [p EXCEPT !.modal = "block", !.overflow = "hidden"]

closeBuyNowForm(p) == [p EXCEPT !.modal = "none", !.overflow = "auto"]

\* setTimeout(() => showAreaPopup(), 300): one more pending timer.
setTimeout(p) == [p EXCEPT !.timers = @ + 1]

\* A handler that tests the ZIP code first.
handleBuyNow_zip_first(p) ==
    IF ~zipRegex_test(p.zipcode) THEN [p EXCEPT !.alert = ZipAlert]
    ELSE IF ~emailRegex_test(p.email) THEN [p EXCEPT !.alert = EmailAlert]
    ELSE setTimeout(closeBuyNowForm(p))

\* A handler that announces the popup only outside the 100xx ZIP codes.
handleBuyNow_served_area(p) ==
    IF ~emailRegex_test(p.email) THEN [p EXCEPT !.alert = EmailAlert]
    ELSE IF ~zipRegex_test(p.zipcode) THEN [p EXCEPT !.alert = ZipAlert]
    ELSE IF SubSeq(p.zipcode, 1, 3) = <<"1", "0", "0">> THEN closeBuyNowForm(p)
    ELSE setTimeout(closeBuyNowForm(p))

\* handleBuyNow(event): the two tests, then close and schedule the popup.
handleBuyNow(p) ==
    IF ~emailRegex_test(p.email) THEN [p EXCEPT !.alert = EmailAlert]
    ELSE IF ~zipRegex_test(p.zipcode) THEN [p EXCEPT !.alert = ZipAlert]
    ELSE setTimeout(closeBuyNowForm(p))

showAreaPopup(p) == [p EXCEPT !.popup = "flex", !.overflow = "hidden"]

\* closeAreaPopup(): hides the popup and resets the form.
closeAreaPopup(p) ==
    [p EXCEPT !.popup = "none", !.overflow = "auto",
              !.email = <<>>, !.zipcode = <<>>, !.marketing = FALSE]

\* window.onclick: a click whose target is one of the two overlays.
window_onclick(p, target) ==
    IF target = "buyNowModal" THEN closeBuyNowForm(p) ELSE closeAreaPopup(p)

\* The keydown listener on Escape.
keydown_Escape(p) == closeAreaPopup(closeBuyNowForm(p))

\* No landing page in the run.
PageIdle ==
    /\ page = InitialPage
    /\ lastEvent = "load"

(***************************************************************************)
(* The onboarding wizard (RooferOnboarding).  wizard holds the two pieces  *)
(* of React state, step and formData; completed holds what onComplete was  *)
(* called with.  A field value is a number, a string (as typed into an     *)
(* input) or, inside parseFloat, NaN and Infinity.                         *)
(***************************************************************************)
NaN      == [k |-> "nan", n |-> 0, d |-> 1, s |-> <<>>]
Infinity == [k |-> "inf", n |-> 1, d |-> 1, s |-> <<>>]

\* The number of decimal digits s holds from position i on.
RECURSIVE DigitRun(_, _)
DigitRun(s, i) ==
    IF i <= Len(s) /\ s[i] \in {Digits[j] : j \in 1..10}
    THEN 1 + DigitRun(s, i + 1) ELSE 0

DigitVal(c) == (CHOOSE j \in 1..10 : Digits[j] = c) - 1

\* The integer written by the digits a..b of s (0 for an empty run).
RECURSIVE DigitsToInt(_, _, _)
DigitsToInt(s, a, b) ==
    IF b < a THEN 0 ELSE DigitsToInt(s, a, b - 1) * 10 + DigitVal(s[b])

RECURSIVE Pow10(_)
Pow10(e) == IF e = 0 THEN 1 ELSE 10 * Pow10(e - 1)

\* parseFloat(value): blanks are skipped, then the longest prefix that is a
\* decimal literal (sign, digits, fraction, exponent) is converted; NaN when
\* there is none.
parseFloat(value) ==
    LET t     == StripLeft(value)
        signed == t # <<>> /\ t[1] \in {"+", "-"}
        sign  == IF signed /\ t[1] = "-" THEN -1 ELSE 1
        i0    == IF signed THEN 2 ELSE 1
        nInt  == DigitRun(t, i0)
        iDot  == i0 + nInt
        dot   == iDot <= Len(t) /\ t[iDot] = "."
        nFrac == IF dot THEN DigitRun(t, iDot + 1) ELSE 0
        iExp  == IF dot THEN iDot + 1 + nFrac ELSE iDot
        eMark == iExp <= Len(t) /\ t[iExp] \in {"e", "E"}
        eSigned == eMark /\ iExp + 1 <= Len(t) /\ t[iExp + 1] \in {"+", "-"}
        eSign == IF eSigned /\ t[iExp + 1] = "-" THEN -1 ELSE 1
        iExpDigits == IF eSigned THEN iExp + 2 ELSE iExp + 1
        nExp  == IF eMark THEN DigitRun(t, iExpDigits) ELSE 0
        exp   == eSign * DigitsToInt(t, iExpDigits, iExpDigits + nExp - 1)
        mant  == QAdd(QI(DigitsToInt(t, i0, iDot - 1)),
                      Q(DigitsToInt(t, iDot + 1, iDot + nFrac), Pow10(nFrac)))
        scaled == IF exp >= 0 THEN QMul(mant, QI(Pow10(exp)))
                  ELSE QDiv(mant, QI(Pow10(-exp)))
    IN  IF startswith(SubSeq(t, i0, Len(t)), <<"I","n","f","i","n","i","t","y">>)
        THEN Infinity
        ELSE IF nInt + nFrac = 0 THEN NaN
        ELSE Num(QMul(QI(sign), scaled))

\* x || 0 for a number x: NaN and 0 are falsy.
or_zero(x) == IF x.k = "nan" \/ (x.k = "num" /\ x.n = 0) THEN Num(Zero) ELSE x

\* formData as useState creates it.
InitialFormData ==
    [ business_name |-> Str(<<>>), license_id |-> Str(<<>>),
      primary_zip_code |-> Str(<<>>), email |-> Str(<<>>),
      labor_rate |-> Num(QI(45)), daily_productivity |-> Num(QI(2500)),
      base_crew_size |-> Num(QI(3)),
      crew_scaling_rule |-> Str(<<"s","i","z","e","_","a","n","d","_",
                                   "c","o","m","p","l","e","x","i","t","y">>),
      slope_cost_adjustment |->
          [ flat_low |-> Num(Zero), moderate |-> Num(Q(1, 10)),
            steep |-> Num(Q(2, 10)), very_steep |-> Num(Q(3, 10)) ],
      material_costs |->
          [ asphalt |-> Num(QI(4)), shingle |-> Num(Q(45, 10)),
            metal |-> Num(QI(7)), tile |-> Num(QI(8)), concrete |-> Num(QI(6)) ],
      replacement_costs |->
          [ asphalt |-> Num(QI(45)), shingle |-> Num(QI(50)),
            metal |-> Num(QI(90)), tile |-> Num(QI(70)), concrete |-> Num(QI(60)) ],
      overhead_percent |-> Num(Q(1, 10)), profit_margin |-> Num(Q(2, 10)) ]

\* {...obj, [key]: v}
spread_with(obj, key, v) ==
    [x \in DOMAIN obj \cup {key} |-> IF x = key THEN v ELSE obj[x]]

\* A nested edit that builds the parent from the edited child alone.
handleInputChange_child_only(prev, field, value) ==
    IF Len(field) > 1
    THEN spread_with(prev, field[1],
                     spread_with(<<>>, field[2], or_zero(parseFloat(value))))
    ELSE spread_with(prev, field[1], Str(value))

\* handleInputChange(field, value) applied to prev; field is the name
\* split at its dots, value the text of the input.
handleInputChange(prev, field, value) ==
    IF Len(field) > 1
    THEN spread_with(prev, field[1],
                     spread_with(prev[field[1]], field[2],
                                 or_zero(parseFloat(value))))
    ELSE spread_with(prev, field[1], Str(value))

nextStep(step) == step + 1
prevStep(step) == step - 1

\* A wizard that shows its Next button on every step.
offersNext_always(step) == TRUE

\* The steps whose markup holds a Next, a Back, a Complete Setup button.
offersNext(step) == step \in {1, 2, 3}
offersBack(step) == step \in {2, 3, 4}
offersComplete(step) == step = 4

\* The step on which the input of a field is rendered.
StepOfField(field) ==
    CASE field[1] \in {"business_name", "license_id", "primary_zip_code",
                       "email"} -> 1
      [] field[1] \in {"labor_rate", "daily_productivity", "base_crew_size",
                       "crew_scaling_rule"} -> 2
      [] field[1] = "slope_cost_adjustment" -> 3
      [] field[1] \in {"overhead_percent", "profit_margin"} -> 4

NoData == [no_data |-> TRUE]
NoEvent == [name |-> "mount", field |-> <<>>, value |-> <<>>, arg |-> NoData]

\* No wizard in the run.
WizardIdle ==
    /\ wizard = [step |-> 1, formData |-> InitialFormData]
    /\ wizEvent = NoEvent

(***************************************************************************)
(* The engine on one record: SpecCalc.                                     *)
(***************************************************************************)
NoQuote == [exc |-> "pending", v |-> NoValues]
NoMult  == QI(-1)
NoWorkers == [state |-> <<>>, out |-> <<>>, order |-> <<>>]

RegionIdle ==
    /\ zip_code = PyNone
    /\ high_list = high_cost_zips
    /\ low_list = low_cost_zips
    /\ multiplier = NoMult

BatchIdle ==
    /\ batch = <<>>
    /\ pc = "idle"
    /\ idx = 0
    /\ results = <<>>
    /\ errors = <<>>
    /\ worker = NoWorkers

CalcIdle ==
    /\ roofer = DefaultProfile
    /\ row = MkRow(BaseFields)
    /\ quote = NoQuote

InitCalc ==
    /\ roofer \in Profiles
    /\ row \in Rows
    /\ quote = NoQuote
    /\ RegionIdle
    /\ BatchIdle
    /\ PageIdle
    /\ WizardIdle

\* calculate_quote(row, roofer) is called.
Calculate ==
    /\ quote = NoQuote
    /\ quote' = calculate_quote(row, roofer)
    /\ UNCHANGED <<roofer, row, regionVars, batchVars, pageVars, wizardVars>>

NextCalc == Calculate

SpecCalc == InitCalc /\ [][NextCalc]_vars

(***************************************************************************)
(* Properties of one calculation (SpecCalc).                               *)
(***************************************************************************)
Computed == quote.exc = ""

QNeg(a) == [n |-> -a.n, d |-> a.d]
QSub(a, b) == QAdd(a, QNeg(b))
QAbs(a) == [n |-> Abs(a.n), d |-> a.d]
HalfCent == Q(5, 1000)
FiveCents == Q(5, 100)
IsCents(a) == 100 % a.d = 0

\* C3 as claimed: low and high are the roundings of 0.90 and 1.15 times the
\* total, and low <= total <= high for every valid profile and record.
C3_RangeBracketsTotal ==
    Computed =>
        /\ QLe(QAbs(QSub(quote.v.low, QMul(quote.v.total, Q(90, 100)))), HalfCent)
        /\ QLe(QAbs(QSub(quote.v.high, QMul(quote.v.total, Q(115, 100)))), HalfCent)
        /\ QLe(quote.v.low, quote.v.total)
        /\ QLe(quote.v.total, quote.v.high)

\* C3 amended: low and high are whole cents within half a cent of 0.90 and
\* 1.15 times the total, low <= high, and low <= total <= high whenever the
\* total is zero or at least five cents.
C3_RangeRounded ==
    Computed =>
        /\ IsCents(quote.v.low) /\ IsCents(quote.v.high)
        /\ QLe(QAbs(QSub(quote.v.low, QMul(quote.v.total, Q(90, 100)))), HalfCent)
        /\ QLe(QAbs(QSub(quote.v.high, QMul(quote.v.total, Q(115, 100)))), HalfCent)
        /\ QLe(quote.v.low, quote.v.high)
        /\ (quote.v.total = Zero \/ QLe(FiveCents, quote.v.total)) =>
              /\ QLe(quote.v.low, quote.v.total)
              /\ QLe(quote.v.total, quote.v.high)

\* A quote of at least five cents, with a fraction that has to be rounded.
C3_Witness ==
    /\ Computed
    /\ QLe(FiveCents, quote.v.total)
    /\ quote.v.low # QMul(quote.v.total, Q(90, 100))
    /\ QLt(quote.v.low, quote.v.total)
    /\ QLt(quote.v.total, quote.v.high)

\* C4: crew_size_used is base_crew_size plus one for area > 3000, one for
\* area > 5000 and one for pitch > 30 or height > 25 (strict thresholds, the
\* last increment once), so it lies between base and base + 3.
C4_CrewSize ==
    Computed =>
        LET f      == normalize(row)
            a      == f.area
            p      == f.pitch
            h      == f.height
            over3  == IF a.n > 3000 * a.d THEN 1 ELSE 0
            over5  == IF a.n > 5000 * a.d THEN 1 ELSE 0
            hard   == IF p.n > 30 * p.d \/ h.n > 25 * h.d THEN 1 ELSE 0
        IN  /\ quote.v.crew_size_used = roofer.base_crew_size + over3 + over5 + hard
            /\ quote.v.crew_size_used >= roofer.base_crew_size
            /\ quote.v.crew_size_used <= roofer.base_crew_size + 3

\* Area exactly 3000 adds nobody; pitch and height both over their
\* thresholds add one worker, not two.
C4_Witness ==
    /\ Computed
    /\ dict_get(row, "roof_area", Absent) = Num(QI(3000))
    /\ dict_get(row, "pitch", Absent) = Num(Q(4501, 100))
    /\ dict_get(row, "height_ft", Absent) = Num(QI(26))
    /\ quote.v.crew_size_used = roofer.base_crew_size + 1

\* The buckets whose pitch interval, upper bound included, holds p.
BucketsOf(p) ==
    { b \in {"flat_low", "moderate", "steep", "very_steep"} :
        CASE b = "flat_low" -> p.n <= 15 * p.d
          [] b = "moderate" -> p.n > 15 * p.d /\ p.n <= 30 * p.d
          [] b = "steep" -> p.n > 30 * p.d /\ p.n <= 45 * p.d
          [] b = "very_steep" -> p.n > 45 * p.d }

\* C5: exactly one slope bucket applies to the pitch, chosen with inclusive
\* upper bounds 15, 30 and 45, and labor cost is the base labor cost
\* (hours * labor_rate * crew) times (1 + that bucket's fraction).
C5_SlopeBucket ==
    Computed =>
        LET p     == quote.v.pitch
            hours == QMul(QDiv(quote.v.roof_area, roofer.daily_productivity), QI(8))
            base  == QMul(QMul(hours, roofer.labor_rate), QI(quote.v.crew_size_used))
        IN  \E b \in BucketsOf(p) :
                /\ BucketsOf(p) = {b}
                /\ quote.v.labor_cost =
                       QMul(base, QAdd(QI(1), roofer.slope_cost_adjustment[b]))

\* Pitch exactly 45 is charged the steep surcharge.
C5_Witness ==
    /\ Computed
    /\ quote.v.pitch = QI(45)
    /\ quote.v.roof_area = QI(2500)
    /\ roofer.base_crew_size = 3
    /\ quote.v.labor_cost = QMul(QI(1440), QAdd(QI(1), roofer.slope_cost_adjustment["steep"]))
    /\ roofer.slope_cost_adjustment["steep"] # roofer.slope_cost_adjustment["very_steep"]
    /\ roofer.slope_cost_adjustment["steep"] # roofer.slope_cost_adjustment["moderate"]

\* The example of section 8 of the specification.
IsExample ==
    /\ [roofer EXCEPT !.region_zip = DefaultProfile.region_zip,
                      !.crew_scaling_rule = DefaultProfile.crew_scaling_rule]
           = DefaultProfile
    /\ startswith(str(roofer.region_zip), <<"1","0","0">>)
    /\ dict_get(row, "roof_area", Absent) = Num(QI(2500))
    /\ dict_get(row, "pitch", Absent) = Num(Q(2443, 100))
    /\ dict_get(row, "height_ft", Absent) = Num(QI(15))
    /\ dict_get(row, "roof_material", Absent) = Str(concrete)
    /\ \A i \in 1..Len(RepairFields) : RepairFields[i].key \notin DOMAIN row

\* C10: the end-to-end example yields crew 3, material 15000, labor 1188,
\* repair 0, multiplier 1.25, subtotal 20235, total 26710.2 and the range
\* (24039.18, 30716.73).
C10_Example ==
    (IsExample /\ quote # NoQuote) =>
        /\ quote.exc = ""
        /\ quote.v.crew_size_used = 3
        /\ quote.v.material_cost = QI(15000)
        /\ quote.v.labor_cost = QI(1188)
        /\ quote.v.repair_cost = Zero
        /\ quote.v.region_multiplier = Q(125, 100)
        /\ quote.v.subtotal = QI(20235)
        /\ quote.v.total = Q(267102, 10)
        /\ quote.v.low = Q(2403918, 100)
        /\ quote.v.high = Q(3071673, 100)

C10_Witness == IsExample /\ Computed /\ quote.v.total = Q(267102, 10)

(***************************************************************************)
(* The region resolver on one ZIP: SpecRegion.                             *)
(***************************************************************************)
\* ZIP values handed to the resolver: strings, ints (a ZIP read as a
\* number loses its leading zero) and None.
ZipInputs ==
    { ZipStr(10001), ZipStr(10101), ZipStr(90210), ZipStr(94105), ZipStr(11201),
      ZipStr(83001), ZipStr(59001), ZipStr(35004), ZipStr(73001),
      ZipStr(60601), ZipStr(60100), ZipStr(28359), ZipStr(1), ZipStr(8),
      Str(<<>>), Str(<<"0","2","1","3","4">>), Str(<<" ","1","0","0","0","1">>),
      Str(<<"a","b","c">>), Str(<<"N","1","1"," ","2","A","B">>),
      Num(QI(10001)), Num(QI(2134)), Num(QI(83001)), Num(QI(60601)), PyNone }

\* The lists of the code, and lists with a ZIP matched by both.
PrefixLists ==
    { [high |-> high_cost_zips, low |-> low_cost_zips],
      [high |-> high_cost_zips, low |-> low_cost_zips \o << <<"1","0">> >>],
      [high |-> high_cost_zips \o << <<"8">> >>, low |-> low_cost_zips],
      [high |-> high_cost_zips \o << <<"5","9">> >>, low |-> low_cost_zips] }

InitRegion ==
    /\ zip_code \in ZipInputs
    /\ \E l \in PrefixLists : high_list = l.high /\ low_list = l.low
    /\ multiplier = NoMult
    /\ CalcIdle
    /\ BatchIdle
    /\ PageIdle
    /\ WizardIdle

\* The resolver is called on zip_code.
ResolveZip ==
    /\ multiplier = NoMult
    /\ multiplier' = resolve(zip_code, high_list, low_list)
    /\ UNCHANGED <<zip_code, high_list, low_list, calcVars, batchVars, pageVars, wizardVars>>

NextRegion == ResolveZip

SpecRegion == InitRegion /\ [][NextRegion]_vars

Resolved == multiplier # NoMult

\* Some entry of ps is an initial segment of the string z.
HasPrefixIn(z, ps) ==
    \E i \in 1..Len(ps) :
        /\ Len(ps[i]) <= Len(z)
        /\ \A j \in 1..Len(ps[i]) : z[j] = ps[i][j]

\* C6: a ZIP that starts with a high-cost prefix resolves to 1.25 even when
\* it also starts with a low-cost prefix; 0.85 is returned only when no
\* high-cost prefix matches and some low-cost prefix does.
C6_HighBeforeLow ==
    Resolved =>
        /\ HasPrefixIn(str(zip_code), high_list) => multiplier = Q(125, 100)
        /\ multiplier = Q(85, 100) =>
              /\ ~HasPrefixIn(str(zip_code), high_list)
              /\ HasPrefixIn(str(zip_code), low_list)

\* A ZIP matched by both lists has resolved to 1.25.
C6_Witness ==
    /\ Resolved
    /\ HasPrefixIn(str(zip_code), high_list)
    /\ HasPrefixIn(str(zip_code), low_list)
    /\ multiplier = Q(125, 100)

validate_profile_rates_only(rf) ==
    /\ QGt(rf.labor_rate, Zero)
    /\ QLe(Zero, rf.overhead_percent)
    /\ QLe(Zero, rf.profit_margin)

validate_profile(rf) ==
    /\ QGt(rf.labor_rate, Zero)
    /\ QGt(rf.daily_productivity, Zero)
    /\ rf.base_crew_size > 0
    /\ QLe(Zero, rf.overhead_percent)
    /\ QLe(Zero, rf.profit_margin)

NumericFields ==
    {"roof_area", "pitch", "height_ft", "roof_condition_summary_score"}
        \cup {RepairFields[i].key : i \in 1..Len(RepairFields)}

\* Why a record is refused with a ValidationError, "" when it is not:
\* the identifying address is missing, or a numeric field holds text.
validation_error(r) ==
    IF "address" \notin DOMAIN r \/ r["address"].k # "str"
    THEN "missing address"
    ELSE IF \E f \in NumericFields : f \in DOMAIN r /\ r[f].k = "str"
    THEN "malformed numeric field"
    ELSE ""

\* The QuoteResult of a record and the values calculated for it.
QuoteResult(r, v) ==
    [ address |-> r["address"].s, roof_material |-> v.roof_material,
      pitch |-> v.pitch, roof_area |-> v.roof_area,
      crew_size_used |-> v.crew_size_used,
      region_multiplier |-> v.region_multiplier,
      material_cost |-> v.material_cost, labor_cost |-> v.labor_cost,
      repair_cost |-> v.repair_cost, total |-> v.total,
      quote_range |-> <<v.low, v.high>> ]

NoResult == QuoteResult([address |-> Str(<<>>)], NoValues)

\* One record of the batch: kind "result", "error" (a ValidationError,
\* caught) or "raise" (any other exception, which run_batch does not catch).
process_record(rf, r) ==
    LET ve == validation_error(r)
        q  == calculate_quote(r, rf)
    IN  IF ve # "" THEN [kind |-> "error", reason |-> ve, result |-> NoResult]
        ELSE IF q.exc # "" THEN [kind |-> "raise", reason |-> q.exc, result |-> NoResult]
        ELSE [kind |-> "result", reason |-> "", result |-> QuoteResult(r, q.v)]

\* The output sequences after the outcome o of the record at index i.
collect_drop_index(out, i, o) ==
    IF o.kind = "result"
    THEN [results |-> Append(out.results, o.result), errors |-> out.errors]
    ELSE [results |-> out.results,
          errors |-> Append(out.errors, [index |-> Len(out.errors), reason |-> o.reason])]

collect(out, i, o) ==
    IF o.kind = "result"
    THEN [results |-> Append(out.results, o.result), errors |-> out.errors]
    ELSE [results |-> out.results,
          errors |-> Append(out.errors, [index |-> i, reason |-> o.reason])]

(***************************************************************************)
(* Batches.                                                                *)
(***************************************************************************)
MaxBatch == 3

BatchRows ==
    { MkRow(BaseFields),
      MkRow([BaseFields EXCEPT !.address = Address(2), !.roof_area = Num(QI(5625)),
                               !.roof_material = Str(<<"T","i","l","e">>)]),
      MkRow([BaseFields EXCEPT !.address = Address(3), !.roof_area = Str(<<"n","/","a">>)]),
      MkRow([BaseFields EXCEPT !.address = Address(4), !.pitch = Num(QI(45)),
                               !.height_ft = Str(<<"t","a","l","l">>)]),
      MkRow([BaseFields EXCEPT !.address = Absent]) }

Batches == UNION { [1..n -> BatchRows] : n \in 0..MaxBatch }

\* Profiles offered to the loader: two valid ones, and one for each
\* broken invariant.
BatchProfiles ==
    { DefaultProfile,
      [DefaultProfile EXCEPT !.region_zip = ZipStr(83001), !.base_crew_size = 1],
      [DefaultProfile EXCEPT !.daily_productivity = Zero],
      [DefaultProfile EXCEPT !.labor_rate = QI(-45)],
      [DefaultProfile EXCEPT !.base_crew_size = 0],
      [DefaultProfile EXCEPT !.base_crew_size = -2] }

InitBatch ==
    /\ roofer \in BatchProfiles
    /\ row = MkRow(BaseFields)
    /\ quote = NoQuote
    /\ RegionIdle
    /\ batch \in Batches
    /\ pc = "idle"
    /\ idx = 0
    /\ results = <<>>
    /\ errors = <<>>
    /\ worker = NoWorkers
    /\ PageIdle
    /\ WizardIdle

\* The profile is loaded into the engine: refused, or the batch starts.
LoadProfile ==
    /\ pc = "idle"
    /\ pc' = IF validate_profile(roofer) THEN "run" ELSE "config_error"
    /\ UNCHANGED <<calcVars, regionVars, pageVars, wizardVars, batch, idx, results, errors, worker>>

\* run_batch handles the record at index idx.
ProcessRecord ==
    /\ pc = "run"
    /\ idx < Len(batch)
    /\ LET o   == process_record(roofer, batch[idx + 1])
           out == collect([results |-> results, errors |-> errors], idx, o)
       IN  IF o.kind = "raise"
           THEN pc' = "crashed" /\ UNCHANGED <<idx, results, errors>>
           ELSE /\ pc' = pc
                /\ idx' = idx + 1
                /\ results' = out.results
                /\ errors' = out.errors
    /\ UNCHANGED <<calcVars, regionVars, pageVars, wizardVars, batch, worker>>

\* run_batch returns (results, errors).
FinishBatch ==
    /\ pc = "run"
    /\ idx = Len(batch)
    /\ pc' = "done"
    /\ UNCHANGED <<calcVars, regionVars, pageVars, wizardVars, batch, idx, results, errors, worker>>

NextBatch == LoadProfile \/ ProcessRecord \/ FinishBatch

SpecBatch == InitBatch /\ [][NextBatch]_vars

(***************************************************************************)
(* Properties of a sequential batch run (SpecBatch).                       *)
(***************************************************************************)
\* A record without its address, or with text in a numeric field.
IsMalformed(r) ==
    \/ "address" \notin DOMAIN r
    \/ \E f \in DOMAIN r :
          /\ f \in {"roof_area", "pitch", "height_ft", "roof_condition_summary_score",
                    "shingle repair area (sqm)", "tile repair area (sqm)",
                    "metal repair area (sqm)"}
          /\ r[f].k # "num"

\* The 0-based indices below n of the malformed and of the other records.
BadIdx(n)  == {i \in 0..(n - 1) : IsMalformed(batch[i + 1])}
GoodIdx(n) == {i \in 0..(n - 1) : ~IsMalformed(batch[i + 1])}

\* The j-th (from 1) smallest element of a set of indices.
Nth(S, j) == CHOOSE i \in S : Cardinality({g \in S : g < i}) = j - 1

\* C1: after the first idx records every index is in exactly one of
\* results and errors: errors holds the malformed indices in ascending
\* order, results the other records in input order, and no exception
\* leaves run_batch; so one malformed record k among N leaves N-1 results
\* and the single error entry k.
C1_BatchIsolation ==
    /\ pc # "crashed"
    /\ pc = "done" => idx = Len(batch)
    /\ pc \in {"run", "done"} =>
          /\ Len(results) + Len(errors) = idx
          /\ {errors[j].index : j \in 1..Len(errors)} = BadIdx(idx)
          /\ \A j, k \in 1..Len(errors) : j < k => errors[j].index < errors[k].index
          /\ Len(results) = Cardinality(GoodIdx(idx))
          /\ \A j \in 1..Len(results) :
                LET r == batch[Nth(GoodIdx(idx), j) + 1]
                IN  /\ results[j].address = r["address"].s
                    /\ Num(results[j].roof_area) = r["roof_area"]

\* Three records, the middle one malformed.
C1_Witness ==
    /\ pc = "done"
    /\ Len(batch) = 3
    /\ BadIdx(3) = {1}
    /\ Len(results) = 2
    /\ Len(errors) = 1 /\ errors[1].index = 1
    /\ results[1].address # results[2].address

ProfileBroken(rf) ==
    \/ rf.daily_productivity = Zero
    \/ rf.labor_rate.n < 0
    \/ rf.base_crew_size <= 0

\* C2: a profile with zero productivity, a negative labor rate or a
\* non-positive crew size is refused when it is loaded: the run ends in a
\* ConfigurationError with no record processed, never starts, and no
\* division by a zero daily_productivity is ever attempted.
C2_ConfigErrorAtLoad ==
    /\ pc = "config_error" => idx = 0 /\ results = <<>> /\ errors = <<>>
    /\ ProfileBroken(roofer) => pc \in {"idle", "config_error"}
    /\ (idx > 0 \/ results # <<>> \/ errors # <<>>) => ~ProfileBroken(roofer)
    /\ pc # "crashed"

\* A profile with zero productivity was refused with records waiting.
C2_Witness ==
    /\ pc = "config_error"
    /\ roofer.daily_productivity = Zero
    /\ Len(batch) > 0
    /\ ~IsMalformed(batch[1])

(***************************************************************************)
(* The batch with one worker per record (specification section 5):         *)
(* SpecPar.  The workers begin and end in any order; the outputs are       *)
(* collected in index order once every worker has ended.                   *)
(***************************************************************************)
MaxParBatch == 3

ParRows ==
    { MkRow(BaseFields),
      MkRow([BaseFields EXCEPT !.address = Address(2), !.roof_area = Num(QI(5625))]),
      MkRow([BaseFields EXCEPT !.address = Address(3), !.roof_area = Str(<<"n","/","a">>)]) }

ParBatches == UNION { [1..n -> ParRows] : n \in 0..MaxParBatch }

ParProfiles ==
    { DefaultProfile, [DefaultProfile EXCEPT !.daily_productivity = Zero] }

NoOutcome == [kind |-> "none", reason |-> "", result |-> NoResult]
NoOutput  == [results |-> <<>>, errors |-> <<>>]

\* run_batch as one fold over the records in input order, from index i.
RECURSIVE run_batch_from(_, _, _, _)
run_batch_from(rf, records, i, out) ==
    IF i >= Len(records) THEN out
    ELSE run_batch_from(rf, records, i + 1,
                        collect(out, i, process_record(rf, records[i + 1])))

run_batch(rf, records) == run_batch_from(rf, records, 0, NoOutput)

\* The outcomes w.out gathered in the order ord of (1-based) positions.
RECURSIVE gather(_, _, _)
gather(w, ord, out) ==
    IF ord = <<>> THEN out
    ELSE gather(w, Tail(ord), collect(out, Head(ord) - 1, w.out[Head(ord)]))

gather_in_completion_order(w) == gather(w, w.order, NoOutput)

gather_in_index_order(w) ==
    gather(w, [i \in 1..Len(w.out) |-> i], NoOutput)

InitPar ==
    /\ roofer \in ParProfiles
    /\ row = MkRow(BaseFields)
    /\ quote = NoQuote
    /\ RegionIdle
    /\ batch \in ParBatches
    /\ pc = "idle"
    /\ idx = 0
    /\ results = <<>>
    /\ errors = <<>>
    /\ worker = NoWorkers
    /\ PageIdle
    /\ WizardIdle

\* The profile is loaded and one worker per record is set up.
ParStart ==
    /\ pc = "idle"
    /\ IF validate_profile(roofer)
       THEN /\ pc' = "par"
            /\ worker' = [state |-> [i \in 1..Len(batch) |-> "pending"],
                          out   |-> [i \in 1..Len(batch) |-> NoOutcome],
                          order |-> <<>>]
       ELSE pc' = "config_error" /\ UNCHANGED worker
    /\ UNCHANGED <<calcVars, regionVars, pageVars, wizardVars, batch, idx, results, errors>>

\* The worker of position i takes its record.
WorkerBegin(i) ==
    /\ pc = "par"
    /\ worker.state[i] = "pending"
    /\ worker' = [worker EXCEPT !.state[i] = "running"]
    /\ UNCHANGED <<calcVars, regionVars, pageVars, wizardVars, batch, pc, idx, results, errors>>

\* The worker of position i ends with the outcome of its record.
WorkerEnd(i) ==
    /\ pc = "par"
    /\ worker.state[i] = "running"
    /\ LET o == process_record(roofer, batch[i])
       IN  /\ worker' = [worker EXCEPT !.state[i] = "done", !.out[i] = o,
                                       !.order = Append(@, i)]
           /\ pc' = IF o.kind = "raise" THEN "crashed" ELSE pc
    /\ UNCHANGED <<calcVars, regionVars, pageVars, wizardVars, batch, idx, results, errors>>

\* Every worker has ended: the two output sequences are put together.
ParCollect ==
    /\ pc = "par"
    /\ \A i \in 1..Len(batch) : worker.state[i] = "done"
    /\ LET out == gather_in_index_order(worker)
       IN  /\ results' = out.results
           /\ errors' = out.errors
    /\ idx' = Len(batch)
    /\ pc' = "done"
    /\ UNCHANGED <<calcVars, regionVars, pageVars, wizardVars, batch, worker>>

NextPar ==
    \/ ParStart
    \/ \E i \in 1..Len(batch) : WorkerBegin(i)
    \/ \E i \in 1..Len(batch) : WorkerEnd(i)
    \/ ParCollect

SpecPar == InitPar /\ [][NextPar]_vars

\* C9: whatever the order in which the workers begin and end, the parallel
\* run returns the results sequence and the errors sequence of the
\* sequential run over the same records.
C9_ParallelEqualsSequential ==
    pc = "done" =>
        /\ results = run_batch(roofer, batch).results
        /\ errors = run_batch(roofer, batch).errors

\* The workers ended in an order other than the input order, and the run
\* returned a result and an error.
C9_Witness ==
    /\ pc = "done"
    /\ Len(batch) = 3
    /\ worker.order = <<3, 1, 2>>
    /\ Len(results) = 2
    /\ Len(errors) = 1 /\ errors[1].index = 0
    /\ results[1].address # results[2].address

(***************************************************************************)
(* The composition of the total.                                           *)
(***************************************************************************)

\* C11: every computed quote has
\*   subtotal = (material_cost + labor_cost + repair_cost) * region_multiplier,
\*   overhead = subtotal * overhead_percent,
\*   profit   = (subtotal + overhead) * profit_margin,
\*   total    = subtotal + overhead + profit
\*            = subtotal * (1 + overhead_percent) * (1 + profit_margin):
\* profit is charged on the overhead too, and the region multiplier scales
\* the repair cost with the rest.
C11_TotalComposition ==
    Computed =>
        LET v        == quote.v
            costs    == QAdd(QAdd(v.material_cost, v.labor_cost), v.repair_cost)
            overhead == QMul(v.subtotal, roofer.overhead_percent)
            profit   == QMul(QAdd(v.subtotal, overhead), roofer.profit_margin)
        IN  /\ v.subtotal = QMul(costs, v.region_multiplier)
            /\ v.total = QAdd(QAdd(v.subtotal, overhead), profit)
            /\ v.total = QMul(QMul(v.subtotal,
                                   QAdd(QI(1), roofer.overhead_percent)),
                              QAdd(QI(1), roofer.profit_margin))

\* A computed quote with a repair cost, a region multiplier other than 1 and
\* a profit that exceeds profit_margin * subtotal.
C11_Witness ==
    /\ Computed
    /\ QGt(quote.v.repair_cost, Zero)
    /\ quote.v.region_multiplier = HighMultiplier
    /\ QGt(quote.v.subtotal, QMul(QI(1000), HighMultiplier))
    /\ QGt(QSub(QSub(quote.v.total, quote.v.subtotal),
                QMul(quote.v.subtotal, roofer.overhead_percent)),
           QMul(quote.v.subtotal, roofer.profit_margin))

(***************************************************************************)
(* What the region multiplier depends on.                                  *)
(***************************************************************************)

\* C12: the region multiplier is resolved from the business profile's
\* registered ZIP alone: the quote computed for a record has the same
\* region_multiplier and the same total as the quote the same profile gives
\* any record that differs from it only in the property's own ZIP and address.
C12_RegionFromProfileOnly ==
    Computed =>
        /\ quote.v.region_multiplier = get_region_multiplier(roofer.region_zip)
        /\ \A loc \in Locations :
              LET other == calculate_quote(Merge(row, loc), roofer)
              IN  /\ other.exc = ""
                  /\ other.v.region_multiplier = quote.v.region_multiplier
                  /\ other.v.total = quote.v.total

\* A property in a low-cost ZIP quoted by a business registered in a
\* high-cost one.
C12_Witness ==
    /\ Computed
    /\ dict_get(row, "zip_code", Absent) = ZipStr(59001)
    /\ get_region_multiplier(dict_get(row, "zip_code", Absent)) = LowMultiplier
    /\ roofer.region_zip = ZipStr(10001)
    /\ quote.v.region_multiplier = HighMultiplier

(***************************************************************************)
(* The crew scaling rule.                                                  *)
(***************************************************************************)
OtherRule(c) == IF c = "size_only" THEN "size_and_complexity" ELSE "size_only"

\* C13: the profile's crew_scaling_rule has no effect: the quote computed
\* for a record is identical, in every value, to the quote computed for it
\* under the profile that differs only in crew_scaling_rule, and under
\* size_only the crew still grows by one when pitch > 30 or height > 25.
C13_ScalingRuleIgnored ==
    quote # NoQuote =>
        /\ quote = calculate_quote(row,
                     [roofer EXCEPT !.crew_scaling_rule = OtherRule(@)])
        /\ (Computed /\ roofer.crew_scaling_rule = "size_only") =>
              LET f == normalize(row)
                  area == NumOf(f.area)
                  bySize == roofer.base_crew_size
                              + (IF QGt(area, QI(3000)) THEN 1 ELSE 0)
                              + (IF QGt(area, QI(5000)) THEN 1 ELSE 0)
              IN  quote.v.crew_size_used =
                    bySize + (IF \/ QGt(NumOf(f.pitch), QI(30))
                                 \/ QGt(NumOf(f.height), QI(25))
                              THEN 1 ELSE 0)

\* A size_only profile whose crew grew for a steep roof of ordinary size.
C13_Witness ==
    /\ Computed
    /\ roofer.crew_scaling_rule = "size_only"
    /\ QGt(quote.v.pitch, QI(30))
    /\ ~QGt(quote.v.roof_area, QI(3000))
    /\ quote.v.crew_size_used = roofer.base_crew_size + 1

(***************************************************************************)
(* Defaults for missing fields.                                            *)
(***************************************************************************)

\* The default documented for a primary column.
DefaultOf(key) ==
    CASE key = "roof_area" -> Num(QI(2500))
      [] key = "pitch" -> Num(QI(15))
      [] key = "height_ft" -> Num(QI(15))
      [] key = "roof_material" -> Str(<<"a","s","p","h","a","l","t">>)
      [] key = "roof_condition_summary_score" -> Num(QI(80))

\* The normalized value of a primary column.
NormalizedField(r, key) ==
    LET f == normalize(r)
    IN  CASE key = "roof_area" -> f.area
          [] key = "pitch" -> f.pitch
          [] key = "height_ft" -> f.height
          [] key = "roof_material" -> f.material
          [] key = "roof_condition_summary_score" -> f.condition

\* C14: normalization never fails and gives each of the five primary
\* fields its documented default (2500, 15, 15, "asphalt", 80) when the
\* column is absent or holds a null, and the record's own value otherwise
\* (the lower-casing of the material on the same line raises nothing).
C14_NormalizeDefaults ==
    quote # NoQuote =>
        /\ \A key \in PrimaryKeys :
              NormalizedField(row, key) =
                  IF key \notin DOMAIN row \/ row[key] = PyNone
                  THEN DefaultOf(key) ELSE row[key]
        /\ quote.exc # "AttributeError"

\* What the row.get calls do: the default for an absent column, the
\* record's value, null included, for a present one.
C14_DefaultsWhenAbsent ==
    quote # NoQuote =>
        \A key \in PrimaryKeys :
            NormalizedField(row, key) =
                IF key \notin DOMAIN row THEN DefaultOf(key) ELSE row[key]

\* A record with a null roof_area, which the calculation rejects.
C14_NullKept ==
    /\ quote # NoQuote
    /\ "roof_area" \in DOMAIN row /\ row["roof_area"] = PyNone
    /\ normalize(row).area = PyNone
    /\ quote.exc = "TypeError"

(***************************************************************************)
(* Material cost.                                                          *)
(***************************************************************************)

\* Two names that differ at most in the case of their letters.
SameIgnoringCase(a, b) ==
    /\ Len(a) = Len(b)
    /\ \A i \in 1..Len(a) :
          \/ a[i] = b[i]
          \/ \E k \in 1..26 : {a[i], b[i]} = {UpperChars[k], LowerChars[k]}

\* The entries of material_costs a material name stands for.
PricedAs(costs, name) == {key \in DOMAIN costs : SameIgnoringCase(name, key)}

\* C15: material_cost = roof_area * unit price, the unit price being the
\* material_costs entry whose name equals the record's material up to
\* letter case, and 5.0 when there is none; a material that is not in
\* material_costs raises no error.
C15_MaterialCost ==
    quote # NoQuote =>
        LET f     == normalize(row)
            known == PricedAs(roofer.material_costs, f.material.s)
            price == IF known = {} THEN Q(5, 1)
                     ELSE roofer.material_costs[CHOOSE key \in known : TRUE]
        IN  /\ Computed => /\ quote.v.material_cost = QMul(NumOf(f.area), price)
                           /\ SameIgnoringCase(quote.v.roof_material, f.material.s)
            /\ (/\ f.material.k = "str"
                /\ known = {}
                /\ \A key \in PrimaryKeys \ {"roof_material"} :
                      key \in DOMAIN row => row[key].k = "num")
                  => Computed

\* A material written in capitals priced as its lower-case entry.
C15_Witness ==
    /\ Computed
    /\ dict_get(row, "roof_material", Absent) = Str(<<"M","E","T","A","L">>)
    /\ dict_get(row, "roof_area", Absent) = Num(QI(2500))
    /\ quote.v.roof_material = metal
    /\ quote.v.material_cost = QMul(QI(2500), roofer.material_costs[metal])
    /\ quote.v.material_cost # QMul(QI(2500), Q(5, 1))

\* A material that material_costs does not list, priced at 5.0.
C15_UnknownPriced ==
    /\ Computed
    /\ dict_get(row, "roof_material", Absent) = Str(slate)
    /\ quote.v.material_cost = QI(12500)

(***************************************************************************)
(* Repair cost.                                                            *)
(***************************************************************************)

\* What one repair column adds: area * rate when present and positive.
RepairPart(r, rf, key, mat) ==
    IF key \in DOMAIN r /\ QGt(NumOf(r[key]), Zero)
    THEN QMul(NumOf(r[key]),
              IF mat \in DOMAIN rf.replacement_costs
              THEN rf.replacement_costs[mat] ELSE QI(50))
    ELSE Zero

\* Repair columns of materials outside the fixed three.
OtherRepairKeys == {"asphalt repair area (sqm)", "concrete repair area (sqm)"}

Without(r, keys) == [x \in DOMAIN r \ keys |-> r[x]]

\* C16: repair_cost is the sum, over the shingle, tile and metal repair
\* columns, of area * rate for each column that is present and > 0, the rate
\* being the material's replacement_costs entry and 50 when it has none;
\* absent, zero and negative areas add nothing, and the repair columns of
\* other materials leave the quote as it is without them.
C16_RepairCost ==
    Computed =>
        /\ quote.v.repair_cost =
              QAdd(RepairPart(row, roofer, "shingle repair area (sqm)", shingle),
                QAdd(RepairPart(row, roofer, "tile repair area (sqm)", tile),
                     RepairPart(row, roofer, "metal repair area (sqm)", metal)))
        /\ quote = calculate_quote(Without(row, OtherRepairKeys), roofer)

\* Tile and metal repairs priced at the default rate of 50 beside a concrete
\* repair column that adds nothing: 2 * 50 + 4 * 50.
C16_Witness ==
    /\ Computed
    /\ roofer = SparseProfile
    /\ dict_get(row, "tile repair area (sqm)", Absent) = Num(QI(2))
    /\ dict_get(row, "metal repair area (sqm)", Absent) = Num(QI(4))
    /\ dict_get(row, "concrete repair area (sqm)", Absent) = Num(QI(7))
    /\ quote.v.repair_cost = QI(300)

\* A negative and a zero repair area, which add nothing.
C16_NothingAdded ==
    /\ Computed
    /\ dict_get(row, "metal repair area (sqm)", Absent) = Num(QI(-3))
    /\ dict_get(row, "tile repair area (sqm)", Absent) = Num(Zero)
    /\ quote.v.repair_cost = Zero

(***************************************************************************)
(* Zero-area records.                                                      *)
(***************************************************************************)
ZeroArea == dict_get(row, "roof_area", Absent) = Num(Zero)

\* C17: a record with roof_area = 0 is quoted, not refused: its material
\* cost and labor cost are 0, its crew is base_crew_size plus one when
\* pitch > 30 or height > 25, and its region multiplier is the one of the
\* business ZIP.
C17_ZeroArea ==
    (quote # NoQuote /\ ZeroArea) =>
        LET f == normalize(row)
            z == roofer.region_zip.s
        IN  /\ (f.material.k = "str" /\ IsNum(f.pitch) /\ IsNum(f.height))
                  => Computed
            /\ Computed =>
                  /\ quote.v.material_cost = Zero
                  /\ quote.v.labor_cost = Zero
                  /\ quote.v.crew_size_used =
                        roofer.base_crew_size
                          + (IF \/ QGt(NumOf(f.pitch), QI(30))
                                \/ QGt(NumOf(f.height), QI(25))
                             THEN 1 ELSE 0)
                  /\ quote.v.region_multiplier =
                        IF HasPrefixIn(z, high_cost_zips) THEN Q(125, 100)
                        ELSE IF HasPrefixIn(z, low_cost_zips) THEN Q(85, 100)
                        ELSE QI(1)

\* A steep zero-area roof quoted in a high-cost region: no material or
\* labor cost, one more crew member, multiplier 1.25.
C17_Witness ==
    /\ Computed /\ ZeroArea
    /\ QGt(quote.v.pitch, QI(30))
    /\ quote.v.material_cost = Zero /\ quote.v.labor_cost = Zero
    /\ quote.v.crew_size_used = roofer.base_crew_size + 1
    /\ quote.v.region_multiplier = HighMultiplier

(***************************************************************************)
(* The landing page in use: SpecLanding, and SpecLandingFair in which a    *)
(* pending timer does fire.                                                *)
(***************************************************************************)
MaxTimers == 2

\* What a visitor types: a valid address, one without a dot after the @,
\* one with a blank, one with nothing between @ and dot, and nothing.
Emails ==
    { <<"a","@","b",".","c","o">>, <<"a","@","b">>,
      <<"a"," ","b","@","c",".","d">>, <<"a","@",".","b">>, <<>> }

\* Five digits in a high-cost and in a low-cost region, four digits, six
\* digits, a letter among the digits, and nothing.
ZipEntries ==
    { <<"1","0","0","0","1">>, <<"8","3","0","0","1">>, <<"1","2","3","4">>,
      <<"1","2","3","4","5","6">>, <<"1","2","a","4","5">>, <<>> }

\* The page at the start of a handler: no alert raised yet.
Quiet(p) == [p EXCEPT !.alert = ""]

InitLanding ==
    /\ page = InitialPage
    /\ lastEvent = "load"
    /\ WizardIdle
    /\ CalcIdle
    /\ RegionIdle
    /\ BatchIdle

\* A Buy Now button of the page is clicked; the buttons lie beneath the
\* overlays, so they are within reach when neither overlay is shown.
OpenBuyNowForm ==
    /\ page.modal = "none" /\ page.popup = "none"
    /\ page' = openBuyNowForm(Quiet(page))
    /\ lastEvent' = "open"
    /\ UNCHANGED <<calcVars, regionVars, batchVars, wizardVars>>

\* The visitor fills in the form of the open modal.
TypeForm ==
    /\ page.modal = "block"
    /\ \E e \in Emails, z \in ZipEntries, m \in BOOLEAN :
          page' = [Quiet(page) EXCEPT !.email = e, !.zipcode = z, !.marketing = m]
    /\ lastEvent' = "input"
    /\ UNCHANGED <<calcVars, regionVars, batchVars, wizardVars>>

\* The form of the open modal is submitted.
SubmitBuyNow ==
    /\ page.modal = "block"
    /\ handleBuyNow(Quiet(page)).timers <= MaxTimers
    /\ page' = handleBuyNow(Quiet(page))
    /\ lastEvent' = "submit"
    /\ UNCHANGED <<calcVars, regionVars, batchVars, wizardVars>>

\* A pending 300 ms timer fires.
TimerFire ==
    /\ page.timers > 0
    /\ page' = showAreaPopup([Quiet(page) EXCEPT !.timers = @ - 1])
    /\ lastEvent' = "timer"
    /\ UNCHANGED <<calcVars, regionVars, batchVars, wizardVars>>

\* A click on the backdrop of an overlay that is shown.
ClickOutside ==
    /\ \E target \in {"buyNowModal", "areaPopup"} :
          /\ IF target = "buyNowModal" THEN page.modal = "block"
                                       ELSE page.popup = "flex"
          /\ page' = window_onclick(Quiet(page), target)
    /\ lastEvent' = "click"
    /\ UNCHANGED <<calcVars, regionVars, batchVars, wizardVars>>

\* Escape is pressed.
PressEscape ==
    /\ page' = keydown_Escape(Quiet(page))
    /\ lastEvent' = "escape"
    /\ UNCHANGED <<calcVars, regionVars, batchVars, wizardVars>>

NextLanding ==
    \/ OpenBuyNowForm
    \/ TypeForm
    \/ SubmitBuyNow
    \/ TimerFire
    \/ ClickOutside
    \/ PressEscape

SpecLanding == InitLanding /\ [][NextLanding]_vars

\* The browser runs a timer callback once its delay has passed.
SpecLandingFair == SpecLanding /\ WF_vars(TimerFire)

(***************************************************************************)
(* Properties of the landing page.                                         *)
(***************************************************************************)

\* An address without blanks, with a single @ that is not its first
\* character, and a dot at least two places after the @ and before the end.
ValidEmail(s) ==
    LET ats == {i \in 1..Len(s) : s[i] = "@"}
    IN  /\ Cardinality(ats) = 1
        /\ \A k \in 1..Len(s) : s[k] \notin {" ", "\t", "\n"}
        /\ \A i \in ats :
              /\ i > 1
              /\ \E j \in (i + 2)..(Len(s) - 1) : s[j] = "."

FiveDigits(s) ==
    /\ Len(s) = 5
    /\ \A k \in 1..Len(s) : \E d \in 0..9 : s[k] = Digits[d + 1]

\* The form was just submitted with a valid address and a five-digit ZIP.
ValidSubmission ==
    /\ lastEvent = "submit"
    /\ ValidEmail(page.email)
    /\ FiveDigits(page.zipcode)

\* C18: every submission with a syntactically valid email and a ZIP of
\* exactly five digits, whatever the digits, leaves the Buy Now modal closed
\* and is eventually followed by the area popup being shown.
C18_ValidSubmitShowsPopup ==
    /\ [](ValidSubmission => page.modal = "none" /\ page.alert = "")
    /\ ValidSubmission ~> (page.popup = "flex")

\* The popup shown by the timer of a submission for ZIP 10001.
C18_Witness ==
    /\ lastEvent = "timer"
    /\ page.popup = "flex"
    /\ page.modal = "none"
    /\ ValidEmail(page.email)
    /\ page.zipcode = <<"1","0","0","0","1">>
    /\ page.timers = 0

\* C19: a submission whose email fails the pattern, or whose ZIP is not
\* exactly five digits, raises an alert and changes nothing else: the modal
\* stays open, no timer is scheduled, the popup is as it was and the form
\* keeps its values; the email is tested first, so an entry with both faults
\* gets the email alert.
C19_InvalidSubmitOnlyAlerts ==
    [][ (/\ lastEvent' = "submit"
         /\ ~(ValidEmail(page.email) /\ FiveDigits(page.zipcode)))
        => page' = [page EXCEPT
                      !.alert = IF ~ValidEmail(page.email)
                                THEN "Please enter a valid email address"
                                ELSE "Please enter a valid 5-digit ZIP code"]
      ]_vars

\* A refused ZIP while a timer of an earlier submission is pending: the
\* modal is still open and the entry is kept.
C19_Witness ==
    /\ lastEvent = "submit"
    /\ page.alert = "Please enter a valid 5-digit ZIP code"
    /\ ValidEmail(page.email)
    /\ page.zipcode = <<"1","2","3","4","5","6">>
    /\ page.modal = "block"
    /\ page.timers = 1

\* An entry with both faults, answered with the email alert.
C19_EmailFirst ==
    /\ lastEvent = "submit"
    /\ ~ValidEmail(page.email) /\ ~FiveDigits(page.zipcode)
    /\ page.alert = "Please enter a valid email address"

\* C20: in every reachable state at most one of the Buy Now modal and the
\* area popup is visible.
C20_OneOverlayAtMost ==
    ~(page.modal = "block" /\ page.popup = "flex")

\* C21: background scrolling is locked (the body's overflow is 'hidden')
\* exactly when the Buy Now modal or the area popup is visible; closing one
\* overlay does not restore scrolling while the other is still shown.
C21_ScrollLockedWhileOverlay ==
    (page.overflow = "hidden") <=> (page.modal = "block" \/ page.popup = "flex")

\* What does hold: scrolling is locked only while an overlay is shown.
C21_LockedOnlyWithOverlay ==
    (page.overflow = "hidden") => (page.modal = "block" \/ page.popup = "flex")

(***************************************************************************)
(* The onboarding wizard in use: SpecWizard.                               *)
(***************************************************************************)

\* Texts typed into a slope input: 0.25 written in four ways, and texts
\* that hold no number or hold zero.
SlopeTexts ==
    { <<"0",".","2","5">>, <<".","2","5">>, <<"2","5","e","-","2">>,
      <<" ","0",".","2","5","x">>, <<>>, <<"a","b","c">>, <<"-">>,
      <<"0">>, <<"-","0">> }

SlopeBuckets == {"flat_low", "moderate", "steep", "very_steep"}

\* The edits a user makes: one field of each of steps 1, 2 and 4, and
\* every slope input of step 3.
EditInputs ==
    { [field |-> <<"business_name">>, value |-> <<"A","c","m","e">>],
      [field |-> <<"labor_rate">>, value |-> <<"5","0">>],
      [field |-> <<"overhead_percent">>, value |-> <<"0",".","1","5">>] }
      \cup { [field |-> <<"slope_cost_adjustment", b>>, value |-> v] :
                b \in SlopeBuckets, v \in SlopeTexts }

InitWizard ==
    /\ wizard = [step |-> 1, formData |-> InitialFormData]
    /\ wizEvent = NoEvent
    /\ CalcIdle
    /\ RegionIdle
    /\ BatchIdle
    /\ PageIdle

\* The Next button of the rendered step is clicked.
ClickNext ==
    /\ offersNext(wizard.step)
    /\ wizard' = [wizard EXCEPT !.step = nextStep(@)]
    /\ wizEvent' = [NoEvent EXCEPT !.name = "next"]
    /\ UNCHANGED <<calcVars, regionVars, batchVars, pageVars>>

\* The Back button of the rendered step is clicked.
ClickBack ==
    /\ offersBack(wizard.step)
    /\ wizard' = [wizard EXCEPT !.step = prevStep(@)]
    /\ wizEvent' = [NoEvent EXCEPT !.name = "back"]
    /\ UNCHANGED <<calcVars, regionVars, batchVars, pageVars>>

\* An input of the rendered step changes.
EditField ==
    /\ \E e \in EditInputs :
          /\ StepOfField(e.field) = wizard.step
          /\ wizard' = [wizard EXCEPT
                          !.formData = handleInputChange(@, e.field, e.value)]
          /\ wizEvent' = [NoEvent EXCEPT !.name = "edit", !.field = e.field,
                                         !.value = e.value]
    /\ UNCHANGED <<calcVars, regionVars, batchVars, pageVars>>

\* Complete Setup is clicked: handleSubmit calls onComplete(formData).
ClickComplete ==
    /\ offersComplete(wizard.step)
    /\ wizEvent' = [NoEvent EXCEPT !.name = "complete", !.arg = wizard.formData]
    /\ UNCHANGED wizard
    /\ UNCHANGED <<calcVars, regionVars, batchVars, pageVars>>

NextWizard ==
    \/ ClickNext
    \/ ClickBack
    \/ EditField
    \/ ClickComplete

SpecWizard == InitWizard /\ [][NextWizard]_vars

(***************************************************************************)
(* Properties of the onboarding wizard.                                    *)
(***************************************************************************)

\* C22: through every sequence of Next and Back clicks the step stays
\* within 1..4 (Back is not offered on step 1, Next not on step 4), a Next
\* or Back click leaves formData as it was, and onComplete is called only
\* on step 4, with the formData of that moment.
C22_StepsAndCompletion ==
    /\ [](wizard.step \in 1..4)
    /\ [](wizEvent.name = "complete" =>
             wizard.step = 4 /\ wizEvent.arg = wizard.formData)
    /\ [][ /\ wizEvent'.name \in {"next", "back"} =>
                /\ wizard'.formData = wizard.formData
                /\ wizard'.step = wizard.step
                                   + (IF wizEvent'.name = "next" THEN 1 ELSE -1)
           /\ (wizEvent'.name = "back" => wizard.step > 1)
           /\ (wizEvent'.name = "next" => wizard.step < 4)
           /\ wizEvent'.arg # NoData => wizEvent'.arg = wizard.formData
         ]_vars

\* Setup completed on step 4 with a formData edited on steps 2 and 4.
C22_Witness ==
    /\ wizEvent.name = "complete"
    /\ wizard.step = 4
    /\ wizEvent.arg = wizard.formData
    /\ wizard.formData # InitialFormData
    /\ wizard.formData.labor_rate = Str(<<"5","0">>)
    /\ wizard.formData.overhead_percent = Str(<<"0",".","1","5">>)

\* The texts of SlopeTexts that write the number 0.25.
QuarterTexts ==
    { <<"0",".","2","5">>, <<".","2","5">>, <<"2","5","e","-","2">>,
      <<" ","0",".","2","5","x">> }

\* C23: an edit of a nested field parent.child replaces that child alone:
\* every sibling key and every other field of formData is as before, and
\* the child holds a number, 0 for a text that is empty or not numeric and
\* never NaN; so slope_cost_adjustment always has exactly the buckets
\* flat_low, moderate, steep and very_steep, each holding a number.
C23_NestedEditFrame ==
    /\ [](/\ DOMAIN wizard.formData.slope_cost_adjustment = SlopeBuckets
          /\ \A b \in SlopeBuckets :
                wizard.formData.slope_cost_adjustment[b].k = "num")
    /\ [][ (wizEvent'.name = "edit" /\ Len(wizEvent'.field) > 1) =>
              LET parent == wizEvent'.field[1]
                  child  == wizEvent'.field[2]
                  old    == wizard.formData
                  new    == wizard'.formData
              IN  /\ DOMAIN new = DOMAIN old
                  /\ \A x \in DOMAIN old \ {parent} : new[x] = old[x]
                  /\ DOMAIN new[parent] = DOMAIN old[parent]
                  /\ \A c \in DOMAIN old[parent] \ {child} :
                        new[parent][c] = old[parent][c]
                  /\ new[parent][child] =
                        IF wizEvent'.value \in QuarterTexts
                        THEN Num(Q(25, 100)) ELSE Num(QI(0))
                  /\ wizard'.step = wizard.step
         ]_vars

\* The steep bucket just cleared to 0 by a text that is not a number, its
\* siblings holding an edited 0.25 and two initial values.
C23_Witness ==
    /\ wizEvent.name = "edit"
    /\ wizEvent.field = <<"slope_cost_adjustment", "steep">>
    /\ wizEvent.value = <<"a","b","c">>
    /\ wizard.formData.slope_cost_adjustment =
          [ flat_low |-> Num(Zero), moderate |-> Num(Q(1, 4)),
            steep |-> Num(Zero), very_steep |-> Num(Q(3, 10)) ]
    /\ wizard.formData.labor_rate = Str(<<"5","0">>)

(***************************************************************************)
(* The condition score.                                                    *)
(***************************************************************************)
ConditionKey == "roof_condition_summary_score"

\* Condition scores across 0..100, and none.
ConditionScores ==
    {Absent, Num(Zero), Num(QI(35)), Num(QI(80)), Num(QI(95)), Num(QI(100))}

\* The record with its condition score set to c, or taken away.
WithCondition(r, c) ==
    IF c = Absent THEN Without(r, {ConditionKey})
    ELSE [x \in DOMAIN r \cup {ConditionKey} |->
             IF x = ConditionKey THEN c ELSE r[x]]

\* C24: the condition score has no influence on the quote: the quote of a
\* record equals, in every cost component, the total and the range, the
\* quote the same profile gives the record with any other condition score
\* in 0..100 or with none (defaulted to 80).
C24_ConditionIgnored ==
    quote # NoQuote =>
        \A c \in ConditionScores :
            quote = calculate_quote(WithCondition(row, c), roofer)

\* A record scored 80 whose quote is that of the same roof scored 0, 100
\* and not scored at all.
C24_Witness ==
    /\ Computed
    /\ dict_get(row, ConditionKey, Absent) = Num(QI(80))
    /\ QGt(quote.v.labor_cost, Zero)
    /\ normalize(WithCondition(row, Num(Zero))).condition = Num(Zero)
    /\ normalize(WithCondition(row, Absent)).condition = Num(QI(80))
    /\ \A c \in {Absent, Num(Zero), Num(QI(100))} :
          calculate_quote(WithCondition(row, c), roofer).v = quote.v

=============================================================================
